---- MODULE Spec2Model ----
(***************************************************************************)
(* A model of the parser-combinator library in src/src/lib.rs.             *)
(*                                                                         *)
(* Characters are Unicode code points (integers).  A text cursor (&str)    *)
(* is the sequence of its UTF-8 bytes; a sequence cursor (an Iterator of   *)
(* char that is Clone) is a buffer with a position.  A parser is a value   *)
(* (a record naming the combinator and its sub-parsers); Parse applies it  *)
(* to an input stream as the code does.  The repetition loop of            *)
(* ManyAppend::parse and the two halves of AndThen::parse are also driven  *)
(* step by step by the state machine below, so that a loop that never      *)
(* leaves is a behaviour of the model and not a diverging evaluation.      *)
(***************************************************************************)
EXTENDS Integers, Sequences, FiniteSets, TLC

\* ------------------------------------------------------------- bounds

\* Longest enumerated input, in characters.
MaxLen == 3

\* Longest enumerated literal of string(..), in characters.
MaxLit == 2

\* Cap on the pushes of one ManyAppend loop (only a loop that never ends
\* reaches it: every input has fewer than MaxVec items).
MaxVec == 10

\* Number of Env::with calls of one sequencing run.
MaxWith == 3

\* ------------------------------------------------------------- results

\* Ok((o, rest)) of ParseResult<O, I>.
Ok(o, rest) == [ok |-> TRUE, out |-> o, rest |-> rest]

\* Err(Error): a bare marker, carrying neither output nor stream.
Err == [ok |-> FALSE]

\* ------------------------------------------------------------- streams

\* The UTF-8 bytes of one code point below 2048 (what a &str holds).
Utf8Char(c) == IF c < 128 THEN <<c>> ELSE <<192 + (c \div 64), 128 + (c % 64)>>

RECURSIVE Utf8(_)
\* The UTF-8 bytes of a sequence of code points.
Utf8(cs) == IF cs = <<>> THEN <<>> ELSE Utf8Char(Head(cs)) \o Utf8(Tail(cs))

\* slice_shift_char taking one byte for a character, whatever its width.
slice_shift_char_bytewise(bytes) ==
    IF bytes = <<>> THEN <<>> ELSE <<bytes[1], Tail(bytes)>>

\* str::slice_shift_char: decode the code point at the front of the bytes
\* and return it with the bytes after it; <<>> (None) on empty text.
slice_shift_char(bytes) ==
    IF bytes = <<>> THEN <<>>
    ELSE IF bytes[1] < 128 THEN <<bytes[1], Tail(bytes)>>
    ELSE <<(bytes[1] - 192) * 64 + (bytes[2] - 128), SubSeq(bytes, 3, Len(bytes))>>

RECURSIVE Chars(_)
\* str::chars: the code points of the text, decoded front to back.
Chars(bytes) ==
    IF bytes = <<>> THEN <<>>
    ELSE <<slice_shift_char(bytes)[1]>> \o Chars(slice_shift_char(bytes)[2])

\* A text cursor over the given code points.
StrCursor(cs) == [kind |-> "str", bytes |-> Utf8(cs)]

\* A sequence cursor (cs.chars(), or any cloneable iterator) at its start.
IterCursor(cs) == [kind |-> "iter", buf |-> cs, pos |-> 0]

\* Iterator::next on a sequence cursor: the item and the advanced cursor.
IterNext(it) ==
    IF it.pos < Len(it.buf)
    THEN <<it.buf[it.pos + 1], [it EXCEPT !.pos = @ + 1]>>
    ELSE <<>>

\* Stream::uncons for an iterator.
uncons_iter(input) ==
    IF IterNext(input) # <<>>
    THEN Ok(IterNext(input)[1], IterNext(input)[2])
    ELSE Err

\* Stream::uncons for &str.
uncons_str(input) ==
    IF slice_shift_char(input.bytes) # <<>>
    THEN Ok(slice_shift_char(input.bytes)[1],
            [input EXCEPT !.bytes = slice_shift_char(input.bytes)[2]])
    ELSE Err

\* Stream::uncons, by the variant of the input.
uncons(input) ==
    IF input.kind = "iter" THEN uncons_iter(input) ELSE uncons_str(input)

\* Clone::clone of an input stream: an independent copy of the cursor.
Clone(input) == input

\* The items a cursor has yet to yield, in order.
Items(input) ==
    IF input.kind = "iter"
    THEN SubSeq(input.buf, input.pos + 1, Len(input.buf))
    ELSE Chars(input.bytes)

\* ------------------------------------------------------------- parsers

\* Parser values.  The field t names the implementation of Parser.
P_char == [t |-> "char"]
P_digit == [t |-> "digit"]
P_satisfy(pred) == [t |-> "satisfy", pred |-> pred]
P_space == P_satisfy("is_whitespace")
P_string(cs) == [t |-> "string", s |-> Utf8(cs)]
P_and_then(p1, p2) == [t |-> "and_then", p1 |-> p1, p2 |-> p2]
P_optional(p) == [t |-> "optional", p |-> p]
P_many(p) == [t |-> "many", p |-> p]
P_many1(p) == [t |-> "many1", p |-> p]
P_sep_by(p, s) == [t |-> "sep_by", parser |-> p, separator |-> s]
P_ref(p) == [t |-> "ref", p |-> p]
P_integer == [t |-> "integer"]
\* The closure `rest` of SepBy::parse: separator, then parser.
P_sep_rest(p, s) == [t |-> "sep_rest", parser |-> p, separator |-> s]

\* The predicates handed to satisfy: CharExt::is_whitespace (space) and the
\* closures of the tests, on code points below 256.
Pred(name, c) ==
    CASE name = "is_whitespace" -> c \in {9, 10, 11, 12, 13, 32, 133, 160}
      [] name = "is_alphanumeric" ->
            c \in (48..57) \cup (65..90) \cup (97..122) \cup {170, 181, 186}
                  \cup (192..214) \cup (216..246) \cup (248..255)
      [] name = "eq_comma" -> c = 44
      [] name = "eq_colon" -> c = 58

\* char::is_digit(10).
is_digit(c) == c \in 48..57

\* fn char: the next item, whatever it is.
char(input) == uncons(input)

\* fn digit.
digit(input) ==
    LET r == uncons(input)
    IN  IF r.ok
        THEN IF is_digit(r.out) THEN Ok(r.out, r.rest) ELSE Err
        ELSE Err

\* Satisfy::parse.
Satisfy_parse(pred, input) ==
    LET r == uncons(input)
    IN  IF r.ok
        THEN IF Pred(pred, r.out) THEN Ok(r.out, r.rest) ELSE Err
        ELSE Err

RECURSIVE StringP_loop(_, _, _)
\* StringP_loop taking the end of the input for the end of the match.
StringP_loop_eof_ok(s, cs, input) ==
    LET r == uncons(input)
    IN  IF cs = <<>> THEN Ok(s, input)
        ELSE IF r.ok
             THEN IF Head(cs) # r.out THEN Err
                  ELSE StringP_loop(s, Tail(cs), r.rest)
             ELSE Ok(s, input)

\* The for loop of StringP::parse over the characters cs left of self.s.
StringP_loop(s, cs, input) ==
    LET r == uncons(input)
    IN  IF cs = <<>> THEN Ok(s, input)
        ELSE IF r.ok
             THEN IF Head(cs) # r.out THEN Err
                  ELSE StringP_loop(s, Tail(cs), r.rest)
             ELSE Err

\* StringP::parse.
StringP_parse(s, input) == StringP_loop(s, Chars(s), input)

\* Env::new.
Env_new(input) == [input |-> input]

\* Env::result.
Env_result(env, output) == Ok(output, env.input)

RECURSIVE Parse(_, _)
RECURSIVE ManyAppend_parse(_, _, _)

\* Env_with running the parser on the held input itself: a failed call
\* leaves the env short of the item the parser took.
Env_with_nosnapshot(env, parser) ==
    LET r == Parse(parser, env.input)
    IN  IF r.ok
        THEN [env |-> [env EXCEPT !.input = r.rest], ok |-> TRUE, out |-> r.out]
        ELSE [env |-> [env EXCEPT !.input = IF uncons(env.input).ok
                                            THEN uncons(env.input).rest
                                            ELSE env.input],
              ok |-> FALSE]

\* Env::with: the env after the call (field env) and what the call
\* returned (field ok, and out on success).
Env_with(env, parser) ==
    LET r == Parse(parser, Clone(env.input))
    IN  IF r.ok
        THEN [env |-> [env EXCEPT !.input = r.rest], ok |-> TRUE, out |-> r.out]
        ELSE [env |-> env, ok |-> FALSE]

\* ManyAppend_iter without the snapshot: the pass attempts the parser on
\* the input itself, so the item a failed attempt took is gone.
ManyAppend_iter_nosnapshot(parser, input, vec) ==
    LET r == Parse(parser, input)
    IN  IF r.ok
        THEN [brk |-> FALSE, vec |-> Append(vec, r.out), input |-> r.rest]
        ELSE [brk |-> TRUE, vec |-> vec,
              input |-> IF uncons(input).ok THEN uncons(input).rest ELSE input]

\* ManyAppend_iter with a clone that shares the underlying sequence of a
\* sequence cursor: the item a failed attempt took is gone from the input
\* too.  A text cursor is not affected.
ManyAppend_iter_shared_clone(parser, input, vec) ==
    LET r == Parse(parser, Clone(input))
    IN  IF r.ok
        THEN [brk |-> FALSE, vec |-> Append(vec, r.out), input |-> r.rest]
        ELSE [brk |-> TRUE, vec |-> vec,
              input |-> IF input.kind = "iter" /\ uncons(input).ok
                        THEN uncons(input).rest
                        ELSE input]

\* ManyAppend_iter with a progress check: a success that consumed nothing
\* ends the loop.
ManyAppend_iter_progress_check(parser, input, vec) ==
    LET r == Parse(parser, Clone(input))
    IN  IF r.ok /\ r.rest # input
        THEN [brk |-> FALSE, vec |-> Append(vec, r.out), input |-> r.rest]
        ELSE [brk |-> TRUE, vec |-> vec, input |-> input]

\* One pass of the loop of ManyAppend::parse: brk says whether the loop
\* breaks; vec and input are the values of *self.vec and of the local
\* input after the pass.
ManyAppend_iter(parser, input, vec) ==
    LET r == Parse(parser, Clone(input))
    IN  IF r.ok
        THEN [brk |-> FALSE, vec |-> Append(vec, r.out), input |-> r.rest]
        ELSE [brk |-> TRUE, vec |-> vec, input |-> input]

\* ManyAppend::parse: Ok(((), input)), with the vector it pushed to.
ManyAppend_parse(parser, input, vec) ==
    LET it == ManyAppend_iter(parser, input, vec)
    IN  IF it.brk
        THEN [ok |-> TRUE, out |-> <<>>, rest |-> it.input, vec |-> it.vec]
        ELSE ManyAppend_parse(parser, it.input, it.vec)

\* Many::parse.
Many_parse(p, input) ==
    LET m == ManyAppend_parse(P_ref(p), input, <<>>)
    IN  Ok(m.vec, m.rest)

\* The closure of many1.
many1_parse(p, input) ==
    LET first == Parse(p, input)
        m == ManyAppend_parse(P_ref(p), first.rest, <<first.out>>)
    IN  IF ~first.ok THEN Err
        ELSE Ok(m.vec, m.rest)

\* The closure `rest` of SepBy::parse.
sep_rest_parse(parser, separator, input) ==
    LET env0 == Env_new(input)
        w1 == Env_with(env0, P_ref(separator))
        w2 == Env_with(w1.env, P_ref(parser))
    IN  IF ~w1.ok THEN Err
        ELSE IF ~w2.ok THEN Err
        ELSE Env_result(w2.env, w2.out)

\* SepBy::parse.
SepBy_parse(parser, separator, input) ==
    LET first == Parse(parser, Clone(input))
        more == ManyAppend_parse(P_sep_rest(parser, separator),
                                 first.rest, <<first.out>>)
    IN  IF ~first.ok THEN Ok(<<>>, input)
        ELSE Ok(more.vec, more.rest)

\* AndThen::parse.
AndThen_parse(p1, p2, input) ==
    LET a == Parse(p1, input)
        b == Parse(p2, a.rest)
    IN  IF ~a.ok THEN Err
        ELSE IF ~b.ok THEN Err
        ELSE Ok(<<a.out, b.out>>, b.rest)

\* Optional_parse without the snapshot: on failure the input comes back
\* short of the item the attempt took.
Optional_parse_nosnapshot(p, input) ==
    LET r == Parse(p, input)
    IN  IF r.ok THEN Ok(<<r.out>>, r.rest)
        ELSE Ok(<<>>, IF uncons(input).ok THEN uncons(input).rest ELSE input)

\* Optional::parse.  Some(x) is <<x>>, None is <<>>.
Optional_parse(p, input) ==
    LET r == Parse(p, Clone(input))
    IN  IF r.ok THEN Ok(<<r.out>>, r.rest)
        ELSE Ok(<<>>, input)

RECURSIVE fold_digits(_, _)
\* The for loop of tests::integer: n = n * 10 + (c - '0').  n is an i64;
\* the inputs here have at most eight digits, far from its range.
fold_digits(n, chars) ==
    IF chars = <<>> THEN n
    ELSE fold_digits(n * 10 + (Head(chars) - 48), Tail(chars))

\* tests::integer.
integer(input) ==
    LET env0 == Env_new(input)
        w == Env_with(env0, P_many(P_digit))
    IN  IF ~w.ok THEN Err
        ELSE Env_result(w.env, fold_digits(0, w.out))

\* Parser::parse, dispatched on the implementation.
Parse(p, input) ==
    CASE p.t = "char" -> char(input)
      [] p.t = "digit" -> digit(input)
      [] p.t = "satisfy" -> Satisfy_parse(p.pred, input)
      [] p.t = "string" -> StringP_parse(p.s, input)
      [] p.t = "and_then" -> AndThen_parse(p.p1, p.p2, input)
      [] p.t = "optional" -> Optional_parse(p.p, input)
      [] p.t = "many" -> Many_parse(p.p, input)
      [] p.t = "many1" -> many1_parse(p.p, input)
      [] p.t = "sep_by" -> SepBy_parse(p.parser, p.separator, input)
      [] p.t = "sep_rest" -> sep_rest_parse(p.parser, p.separator, input)
      [] p.t = "integer" -> integer(input)
      [] p.t = "ref" -> Parse(p.p, input)

\* ------------------------------------------------------------- inputs

\* The characters of the enumerated inputs: '1', 'a', ',' and the
\* two-byte 'e-acute'.
Alphabet == {49, 97, 44, 233}

\* Every sequence over S of length at most n.
SeqsUpTo(S, n) == UNION {[1..k -> S] : k \in 0..n}

\* The inputs of the tests and of the spec's examples: "123", "123,4,56",
\* "x: int", "abcd", "abx", "abc".
TestInputs ==
    { <<49, 50, 51>>,
      <<49, 50, 51, 44, 52, 44, 53, 54>>,
      <<120, 58, 32, 105, 110, 116>>,
      <<97, 98, 99, 100>>,
      <<97, 98, 120>>,
      <<97, 98, 99>> }

\* Longer inputs: a list whose last separator is followed by no item
\* ("1,1,a"), and a digit run longer than MaxLen ("1111a").
LongInputs == { <<49, 44, 49, 44, 97>>, <<49, 49, 49, 49, 97>> }

\* The character sequences a call is given.
InputTexts == SeqsUpTo(Alphabet, MaxLen) \cup TestInputs \cup LongInputs

\* The literals of string(..): over 'a' and 'e-acute', and "abc".
Literals == SeqsUpTo({97, 233}, MaxLit) \cup {<<97, 98, 99>>}

\* word and spaces of tests::field.
P_word == P_many(P_satisfy("is_alphanumeric"))
P_spaces == P_many(P_space)

\* word.and_then(spaces).and_then(':').and_then(spaces) of tests::field.
P_field_head ==
    P_and_then(P_and_then(P_and_then(P_word, P_spaces), P_satisfy("eq_colon")),
               P_spaces)

\* Sub-parsers that consume at least one item whenever they succeed.
ConsumingSubs ==
    { P_char, P_digit, P_satisfy("is_alphanumeric"),
      P_string(<<97, 44>>),
      P_and_then(P_digit, P_satisfy("eq_comma")),
      P_many1(P_digit) }

\* Sub-parsers that can succeed without consuming anything.
NullableSubs ==
    { P_string(<<>>), P_optional(P_digit), P_many(P_digit), P_integer }

\* The sub-parsers handed to many, many1 and optional.
Subs == ConsumingSubs \cup NullableSubs

\* The (parser, separator) pairs handed to sep_by.
SepPairs ==
    { <<P_integer, P_satisfy("eq_comma")>>,
      <<P_digit, P_satisfy("eq_comma")>>,
      <<P_many1(P_digit), P_string(<<44>>)>>,
      <<P_char, P_string(<<97, 44>>)>>,
      <<P_optional(P_digit), P_optional(P_satisfy("eq_comma"))>> }

\* The (p1, p2) pairs handed to and_then.
AndPairs ==
    { <<P_digit, P_satisfy("eq_comma")>>,
      <<P_string(<<97>>), P_digit>>,
      <<P_word, P_satisfy("eq_comma")>>,
      <<P_optional(P_digit), P_char>>,
      <<P_field_head, P_word>> }

\* The parsers called in one step: primitives, literals, optional,
\* the integer of the tests, a reference to a parser.
DirectParsers ==
    { P_char, P_digit, P_space, P_satisfy("is_alphanumeric"),
      P_satisfy("eq_comma"), P_integer, P_ref(P_many(P_digit)) }
    \cup {P_string(l) : l \in Literals}
    \cup {P_optional(q) : q \in Subs}

\* The parsers handed to Env::with.
WithParsers ==
    { P_digit, P_satisfy("eq_comma"), P_string(<<97, 44>>), P_many(P_digit),
      P_many1(P_satisfy("is_alphanumeric")) }

\* The values handed to Env::result.
ResultValues == {0, 1}

\* ------------------------------------------------------------- state

VARIABLES
    input0,     \* the stream the call is given
    pc,         \* "idle", "loop" (in ManyAppend::parse), "and2" (AndThen
                \* after self.0), "env" (an Env is live), "done"
    call,       \* the parser called
    input,      \* ManyAppend's input; AndThen's rest after self.0
    vec,        \* the vector ManyAppend pushes to
    a,          \* AndThen's a
    env,        \* the Env: <<>> before Env::new, <<e>> after
    result,     \* what the call returned (pc = "done")
    lastWith,   \* what the last Env::with returned
    attempts,   \* history: passes of the ManyAppend loop
    ran,        \* history: the halves of AndThen that ran
    lastRest,   \* history: the remainder of the last successful Env::with
    nwith,      \* history: Env::with calls so far
    withP       \* history: the parser of the last Env::with

vars ==
    <<input0, pc, call, input, vec, a, env, result, lastWith, attempts, ran,
      lastRest, nwith, withP>>

\* No parser called yet.
NoCall == [t |-> "none"]

Init ==
    /\ \E cs \in InputTexts : input0 \in {StrCursor(cs), IterCursor(cs)}
    /\ pc = "idle"
    /\ call = NoCall
    /\ input = input0
    /\ vec = <<>>
    /\ a = <<>>
    /\ env = <<>>
    /\ result = Err
    /\ lastWith = Err
    /\ attempts = 0
    /\ ran = <<>>
    /\ lastRest = input0
    /\ nwith = 0
    /\ withP = NoCall

\* LoopParser with the separator forgotten: sep_by repeats the item alone.
LoopParser_item_only(c) == P_ref(IF c.t = "sep_by" THEN c.parser ELSE c.p)

\* The parser ManyAppend repeats for the call: &mut self.parser for many
\* and many1, the closure `rest` for sep_by.
LoopParser(c) ==
    IF c.t = "sep_by" THEN P_sep_rest(c.parser, c.separator) ELSE P_ref(c.p)

\* A call of a parser that runs in one step.
Call(p) ==
    /\ pc = "idle"
    /\ call' = p
    /\ result' = Parse(p, input0)
    /\ pc' = "done"
    /\ UNCHANGED <<input0, input, vec, a, env, lastWith, attempts, ran,
                   lastRest, nwith, withP>>

\* Many::parse up to the loop of ManyAppend::parse.
ManyCall(p) ==
    /\ pc = "idle"
    /\ call' = P_many(p)
    /\ vec' = <<>>
    /\ input' = input0
    /\ pc' = "loop"
    /\ UNCHANGED <<input0, a, env, result, lastWith, attempts, ran, lastRest,
                   nwith, withP>>

\* Many1Call taking a failed first attempt for an empty list, as many does.
Many1Call_as_many(p) ==
    /\ pc = "idle"
    /\ call' = P_many1(p)
    /\ LET first == Parse(p, input0)
       IN  IF first.ok
           THEN /\ vec' = <<first.out>>
                /\ input' = first.rest
                /\ pc' = "loop"
                /\ UNCHANGED result
           ELSE /\ result' = Ok(<<>>, input0)
                /\ pc' = "done"
                /\ UNCHANGED <<vec, input>>
    /\ UNCHANGED <<input0, a, env, lastWith, attempts, ran, lastRest, nwith,
                   withP>>

\* The closure of many1 up to the loop of ManyAppend::parse.
Many1Call(p) ==
    /\ pc = "idle"
    /\ call' = P_many1(p)
    /\ LET first == Parse(p, input0)
       IN  IF first.ok
           THEN /\ vec' = <<first.out>>
                /\ input' = first.rest
                /\ pc' = "loop"
                /\ UNCHANGED result
           ELSE /\ result' = Err
                /\ pc' = "done"
                /\ UNCHANGED <<vec, input>>
    /\ UNCHANGED <<input0, a, env, lastWith, attempts, ran, lastRest, nwith,
                   withP>>

\* SepBy::parse up to the loop of ManyAppend::parse.
SepByCall(p, s) ==
    /\ pc = "idle"
    /\ call' = P_sep_by(p, s)
    /\ LET first == Parse(p, Clone(input0))
       IN  IF first.ok
           THEN /\ vec' = <<first.out>>
                /\ input' = first.rest
                /\ pc' = "loop"
                /\ UNCHANGED result
           ELSE /\ result' = Ok(<<>>, input0)
                /\ pc' = "done"
                /\ UNCHANGED <<vec, input>>
    /\ UNCHANGED <<input0, a, env, lastWith, attempts, ran, lastRest, nwith,
                   withP>>

\* ManyAppendPass forgetting `input = rest`: every pass starts where the
\* first one did.
ManyAppendPass_no_advance ==
    /\ pc = "loop"
    /\ LET it == ManyAppend_iter(LoopParser(call), input, vec)
       IN  IF it.brk
           THEN /\ result' = Ok(it.vec, it.input)
                /\ pc' = "done"
                /\ vec' = it.vec
                /\ input' = it.input
           ELSE /\ Len(vec) < MaxVec
                /\ vec' = it.vec
                /\ input' = input
                /\ UNCHANGED <<pc, result>>
    /\ attempts' = attempts + 1
    /\ UNCHANGED <<input0, call, a, env, lastWith, ran, lastRest, nwith, withP>>

\* One pass of the loop of ManyAppend::parse; on break, the return of
\* ManyAppend::parse and of its caller, Ok((result, input)).
ManyAppendPass ==
    /\ pc = "loop"
    /\ LET it == ManyAppend_iter(LoopParser(call), input, vec)
       IN  IF it.brk
           THEN /\ result' = Ok(it.vec, it.input)
                /\ pc' = "done"
                /\ vec' = it.vec
                /\ input' = it.input
           ELSE /\ Len(vec) < MaxVec
                /\ vec' = it.vec
                /\ input' = it.input
                /\ UNCHANGED <<pc, result>>
    /\ attempts' = attempts + 1
    /\ UNCHANGED <<input0, call, a, env, lastWith, ran, lastRest, nwith, withP>>

\* AndThen::parse: self.0.parse(input), with try!.
AndThenFirst(p1, p2) ==
    /\ pc = "idle"
    /\ call' = P_and_then(p1, p2)
    /\ ran' = <<1>>
    /\ LET r == Parse(p1, input0)
       IN  IF r.ok
           THEN /\ a' = r.out
                /\ input' = r.rest
                /\ pc' = "and2"
                /\ UNCHANGED result
           ELSE /\ result' = Err
                /\ pc' = "done"
                /\ UNCHANGED <<a, input>>
    /\ UNCHANGED <<input0, vec, env, lastWith, attempts, lastRest, nwith,
                   withP>>

\* AndThenSecond running self.1 on the input of the call, not on what
\* self.0 left.
AndThenSecond_on_input ==
    /\ pc = "and2"
    /\ ran' = Append(ran, 2)
    /\ LET r == Parse(call.p2, input0)
       IN  result' = IF r.ok THEN Ok(<<a, r.out>>, r.rest) ELSE Err
    /\ pc' = "done"
    /\ UNCHANGED <<input0, call, input, vec, a, env, lastWith, attempts,
                   lastRest, nwith, withP>>

\* AndThen::parse: self.1.parse(rest), with try!, and the return.
AndThenSecond ==
    /\ pc = "and2"
    /\ ran' = Append(ran, 2)
    /\ LET r == Parse(call.p2, input)
       IN  result' = IF r.ok THEN Ok(<<a, r.out>>, r.rest) ELSE Err
    /\ pc' = "done"
    /\ UNCHANGED <<input0, call, input, vec, a, env, lastWith, attempts,
                   lastRest, nwith, withP>>

\* Env::new(input).
EnvNew ==
    /\ pc = "idle"
    /\ env' = <<Env_new(input0)>>
    /\ pc' = "env"
    /\ UNCHANGED <<input0, call, input, vec, a, result, lastWith, attempts,
                   ran, lastRest, nwith, withP>>

\* env.with(parser), whatever the caller does with a failure.
EnvWith(p) ==
    /\ pc = "env"
    /\ nwith < MaxWith
    /\ LET w == Env_with(env[1], p)
           r == Parse(p, env[1].input)
       IN  /\ env' = <<w.env>>
           /\ lastWith' = IF w.ok THEN [ok |-> TRUE, out |-> w.out] ELSE Err
           /\ lastRest' = IF r.ok THEN r.rest ELSE lastRest
    /\ withP' = p
    /\ nwith' = nwith + 1
    /\ UNCHANGED <<input0, pc, call, input, vec, a, result, attempts, ran>>

\* env.result(output).
EnvResult(v) ==
    /\ pc = "env"
    /\ result' = Env_result(env[1], v)
    /\ pc' = "done"
    /\ UNCHANGED <<input0, call, input, vec, a, env, lastWith, attempts, ran,
                   lastRest, nwith, withP>>

Next ==
    \/ \E p \in DirectParsers : Call(p)
    \/ \E p \in Subs : ManyCall(p)
    \/ \E p \in Subs : Many1Call(p)
    \/ \E ps \in SepPairs : SepByCall(ps[1], ps[2])
    \/ ManyAppendPass
    \/ \E ps \in AndPairs : AndThenFirst(ps[1], ps[2])
    \/ AndThenSecond
    \/ EnvNew
    \/ \E p \in WithParsers : EnvWith(p)
    \/ \E v \in ResultValues : EnvResult(v)

Spec == Init /\ [][Next]_vars

\* ------------------------------------------------------------- claims

\* The call has returned.
Done == pc = "done"

\* The longest prefix of cs whose items are all decimal digits.
DigitRun(cs) ==
    SubSeq(cs, 1, CHOOSE k \in 0..Len(cs) :
                      /\ \A i \in 1..k : is_digit(cs[i])
                      /\ k < Len(cs) => ~is_digit(cs[k + 1]))

\* cs without its first k items.
Drop(cs, k) == SubSeq(cs, k + 1, Len(cs))

RECURSIVE Chain(_, _, _, _)
\* outs = o1..ok and final = r_k for the chain r_0 = inp, p on r_(i-1)
\* succeeds with (o_i, r_i), and p fails on r_k.
Chain(p, inp, outs, final) ==
    LET r == Parse(p, inp)
    IN  IF outs = <<>> THEN ~r.ok /\ final = inp
        ELSE r.ok /\ r.out = Head(outs) /\ Chain(p, r.rest, Tail(outs), final)

\* C1: many(p) never fails; its outputs and remaining input are those of
\* the chain of successful attempts of p from the input, up to the first
\* failure, whose consumption is discarded.  many(digit) returns the
\* maximal leading run of digits and the untouched rest.
C1_ManyChain ==
    (Done /\ call.t = "many") =>
        /\ result.ok
        /\ Chain(call.p, input0, result.out, result.rest)
        /\ call.p = P_digit =>
              /\ result.out = DigitRun(Items(input0))
              /\ Items(result.rest) = Drop(Items(input0), Len(result.out))
              /\ result.out = <<>> => result.rest = input0

\* many(digit) returned two or more digits and stopped at a non-digit.
C1_Witness ==
    /\ Done
    /\ call = P_many(P_digit)
    /\ Len(result.out) >= 2
    /\ Items(result.rest) # <<>>

\* C2: optional(p) never fails: Some(output) with p's remaining input
\* when p succeeds, None with exactly the stream passed in when p fails.
C2_OptionalNeverFails ==
    (Done /\ call.t = "optional") =>
        LET r == Parse(call.p, input0)
        IN  /\ result.ok
            /\ r.ok => result.out = <<r.out>> /\ result.rest = r.rest
            /\ ~r.ok => /\ result.out = <<>>
                        /\ result.rest = input0
                        /\ Items(result.rest) = Items(input0)

\* optional(string("a,")) returned None on an input starting with 'a':
\* the literal matched one item before it failed.
C2_Witness ==
    /\ Done
    /\ call = P_optional(P_string(<<97, 44>>))
    /\ result.out = <<>>
    /\ Items(input0) # <<>>
    /\ Items(input0)[1] = 97

\* The separator-then-item pair succeeds on inp.
PairOk(p, s, inp) ==
    /\ Parse(s, inp).ok
    /\ Parse(p, Parse(s, inp).rest).ok

RECURSIVE PairChain(_, _, _, _, _)
\* outs and final are those of the chain of successful (sep, p) pairs
\* from inp up to the first pair that fails.
PairChain(p, s, inp, outs, final) ==
    IF outs = <<>> THEN ~PairOk(p, s, inp) /\ final = inp
    ELSE /\ PairOk(p, s, inp)
         /\ Parse(p, Parse(s, inp).rest).out = Head(outs)
         /\ PairChain(p, s, Parse(p, Parse(s, inp).rest).rest, Tail(outs), final)

\* C3: sep_by(p, sep) never fails; the empty list and the input unchanged
\* if p fails at once; otherwise p's outputs for the longest p (sep p)*
\* prefix, the remaining input being the one the last item left (a
\* separator whose item fails is not consumed).  "123,4,56" gives
\* [123, 4, 56] and nothing remaining.
C3_SepBy ==
    (Done /\ call.t = "sep_by") =>
        LET first == Parse(call.parser, input0)
        IN  /\ result.ok
            /\ ~first.ok => result.out = <<>> /\ result.rest = input0
            /\ first.ok =>
                  /\ result.out # <<>>
                  /\ Head(result.out) = first.out
                  /\ PairChain(call.parser, call.separator, first.rest,
                               Tail(result.out), result.rest)
            /\ ( /\ call = P_sep_by(P_integer, P_satisfy("eq_comma"))
                 /\ Items(input0) = <<49, 50, 51, 44, 52, 44, 53, 54>> ) =>
                  /\ result.out = <<123, 4, 56>>
                  /\ Items(result.rest) = <<>>

\* sep_by returned two items and left a separator that matches but whose
\* item failed.
C3_Witness ==
    /\ Done
    /\ call = P_sep_by(P_digit, P_satisfy("eq_comma"))
    /\ Len(result.out) = 2
    /\ Parse(call.separator, result.rest).ok

\* C4: many1(p) fails exactly when p fails on its first attempt; otherwise
\* it returns p's first output followed by the outputs of many(p) on what
\* the first attempt left, with that run's remaining input.
C4_Many1 ==
    (Done /\ call.t = "many1") =>
        LET first == Parse(call.p, input0)
        IN  /\ result.ok <=> first.ok
            /\ result.ok =>
                  /\ result.out # <<>>
                  /\ result.out =
                        <<first.out>> \o Parse(P_many(call.p), first.rest).out
                  /\ result.rest = Parse(P_many(call.p), first.rest).rest

\* many1(p) failed on a non-empty input: the first attempt of p failed.
C4_Witness ==
    /\ Done
    /\ call.t = "many1"
    /\ ~result.ok
    /\ Items(input0) # <<>>

\* C5: the Env holds the remainder of its most recent successful with, or
\* the initial input if none succeeded: a successful with replaces the held
\* input by the parser's remainder and returns its output, a failing with
\* returns the failure and leaves the held input as it was, and
\* result(value) succeeds with the value and the held input.
C5_EnvHeldInput ==
    [][ /\ (env = <<>> /\ env' # <<>>) => env'[1].input = input0
        /\ env' # <<>> => env'[1].input = lastRest'
        /\ nwith' = nwith + 1 =>
              LET r == Parse(withP', env[1].input)
              IN  /\ lastWith'.ok <=> r.ok
                  /\ r.ok => env'[1].input = r.rest /\ lastWith'.out = r.out
                  /\ ~r.ok => env' = env
        /\ (pc = "env" /\ pc' = "done") =>
              /\ result'.ok
              /\ result'.out \in ResultValues
              /\ result'.rest = env[1].input
      ]_vars

\* A with of string("a,") failed after matching 'a', after an earlier with
\* had succeeded and moved the held input.
C5_Witness ==
    /\ pc = "env"
    /\ nwith >= 2
    /\ ~lastWith.ok
    /\ withP = P_string(<<97, 44>>)
    /\ lastRest # input0
    /\ Items(env[1].input) # <<>>
    /\ Items(env[1].input)[1] = 97

\* C6: and_then(p1, p2) runs p2 only if p1 succeeds, on p1's remaining
\* input; it succeeds iff both do, with the pair of outputs and p2's
\* remaining input.  word, spaces, ':', spaces, word parses "x: int" into
\* (['x'], ['i','n','t']) with nothing remaining.
C6_AndThen ==
    (Done /\ call.t = "and_then") =>
        LET r1 == Parse(call.p1, input0)
        IN  /\ ~r1.ok => ~result.ok /\ ran = <<1>>
            /\ r1.ok =>
                  LET r2 == Parse(call.p2, r1.rest)
                  IN  /\ ran = <<1, 2>>
                      /\ result.ok <=> r2.ok
                      /\ r2.ok => /\ result.out = <<r1.out, r2.out>>
                                  /\ result.rest = r2.rest
            /\ ( /\ call = P_and_then(P_field_head, P_word)
                 /\ Items(input0) = <<120, 58, 32, 105, 110, 116>> ) =>
                  /\ result.ok
                  /\ result.out[1][1][1][1] = <<120>>
                  /\ result.out[2] = <<105, 110, 116>>
                  /\ Items(result.rest) = <<>>

\* The chain of tests::field returned on "x: int".
C6_Witness ==
    /\ Done
    /\ call = P_and_then(P_field_head, P_word)
    /\ Items(input0) = <<120, 58, 32, 105, 110, 116>>
    /\ result.ok

\* lit is a prefix of cs, item by item.
IsPrefix(lit, cs) ==
    /\ Len(lit) <= Len(cs)
    /\ \A i \in 1..Len(lit) : lit[i] = cs[i]

\* C7: string(literal) succeeds iff the literal is a prefix of the input;
\* the output is the literal and the remaining input is the input without
\* that prefix; an empty literal succeeds with the input unchanged.
C7_String ==
    (Done /\ call.t = "string") =>
        LET lit == Chars(call.s)
        IN  /\ result.ok <=> IsPrefix(lit, Items(input0))
            /\ result.ok =>
                  /\ result.out = call.s
                  /\ Items(result.rest) = Drop(Items(input0), Len(lit))
                  /\ input0.kind = "str" =>
                        result.rest.bytes = Drop(input0.bytes, Len(call.s))
                  /\ input0.kind = "iter" =>
                        result.rest = [input0 EXCEPT !.pos = Len(lit)]
            /\ lit = <<>> => result.ok /\ result.rest = input0

\* A two-character literal matched and left input behind.
C7_Witness ==
    /\ Done
    /\ call.t = "string"
    /\ Len(Chars(call.s)) = 2
    /\ result.ok
    /\ Items(result.rest) # <<>>

\* C8: the integer parser returns the same output on the sequence cursor
\* and on the text cursor over the same characters, and the two remaining
\* inputs hold the same items, the first of them the item the last attempt
\* failed on.  On "123": 123, and the sequence has no further item.
C8_StreamVariants ==
    (Done /\ call = P_integer) =>
        LET cs == Items(input0)
            onStr == Parse(P_integer, StrCursor(cs))
            onIter == Parse(P_integer, IterCursor(cs))
        IN  /\ result.ok /\ onStr.ok /\ onIter.ok
            /\ result.out = onStr.out
            /\ result.out = onIter.out
            /\ Items(onIter.rest) = Items(onStr.rest)
            /\ Items(result.rest) = Items(onStr.rest)
            /\ Items(result.rest) = Drop(cs, Len(DigitRun(cs)))
            /\ cs = <<49, 50, 51>> =>
                  /\ result.out = 123
                  /\ IterNext(onIter.rest) = <<>>

\* The integer parser ran on a sequence cursor and stopped at a two-byte
\* character after a digit.
C8_Witness ==
    /\ Done
    /\ call = P_integer
    /\ input0.kind = "iter"
    /\ result.out = 1
    /\ Items(result.rest) # <<>>
    /\ Items(result.rest)[1] = 233

\* The cursor k items after the start of the input of the call.
CursorAt(k) ==
    IF input0.kind = "iter" THEN [input0 EXCEPT !.pos = k]
    ELSE StrCursor(Drop(Items(input0), k))

\* Every success of parser p, at any position of the input of the call,
\* removes at least one item.
Consumes(p) ==
    \A k \in 0..Len(Items(input0)) :
        LET r == Parse(p, CursorAt(k))
        IN  r.ok => Len(Items(r.rest)) < Len(Items(CursorAt(k)))

\* The call is a repetition whose repeated parser (for sep_by: the item
\* and the separator-then-item pair) consumes on every success.
ConsumingLoop ==
    /\ call.t \in {"many", "many1", "sep_by"}
    /\ Consumes(LoopParser(call))
    /\ call.t = "sep_by" => Consumes(call.parser)

\* C9: if every success of the repeated parser removes at least one item,
\* many, many1 and sep_by return, after at most (number of input items + 1)
\* passes of the repetition loop: the passes made and the items left never
\* add up to more than the items of the input, and the next pass can
\* always be made (the cap on pushes is not reached).
C9_Terminates ==
    ConsumingLoop =>
        /\ attempts <= Len(Items(input0)) + 1
        /\ pc \in {"loop", "done"}
        /\ pc = "loop" =>
              /\ attempts + Len(Items(input)) <= Len(Items(input0))
              /\ Len(vec) < MaxVec

\* many(p) returned after exactly (number of items + 1) passes, on an input
\* of four or more items.
C9_Witness ==
    /\ Done
    /\ call.t = "many"
    /\ ConsumingLoop
    /\ Len(Items(input0)) >= 4
    /\ attempts = Len(Items(input0)) + 1

\* The loop is at an input on which the repeated parser succeeds and
\* returns that same input.
ZeroPos ==
    /\ pc = "loop"
    /\ Parse(LoopParser(call), input).ok
    /\ Parse(LoopParser(call), input).rest = input

\* C10: once the loop of many, many1 or sep_by is at an input where the
\* repeated parser succeeds without consuming, every pass appends one
\* output and leaves the loop at that same input: the call never returns.
\* many(optional(digit)) and many(many(digit)) return on no input.
C10_ZeroConsumptionLoops ==
    [][ /\ ZeroPos => /\ pc' = "loop"
                      /\ call' = call
                      /\ input' = input
                      /\ Len(vec') = Len(vec) + 1
                      /\ attempts' = attempts + 1
        /\ call' \in {P_many(P_optional(P_digit)), P_many(P_many(P_digit))}
              => pc' = "loop"
      ]_vars

\* many(optional(digit)) has appended three outputs at one position, more
\* than the input has items.
C10_Witness ==
    /\ ZeroPos
    /\ call = P_many(P_optional(P_digit))
    /\ Len(vec) >= 3
    /\ vec[Len(vec)] = <<>>
    /\ vec[Len(vec) - 1] = <<>>
    /\ Len(Items(input0)) <= 1
====
